---------------------------- MODULE Spec2Model ----------------------------
(***************************************************************************)
(* A model of src/igraph_dash_docset.py: the indexing stage of the igraph  *)
(* Dash docset builder (create_index_from_igraph_documentation) and the    *)
(* SQLite connection block of create_docset that calls and commits it.     *)
(*                                                                         *)
(* Strings are real strings: names, hrefs and declaration texts are cut    *)
(* and compared character by character, as str.split, str.strip,           *)
(* str.endswith, the `in` operator and str.startswith do.                  *)
(***************************************************************************)
EXTENDS Integers, Sequences, FiniteSets, TLC

(***************************************************************************)
(* Bounds of the model.                                                    *)
(***************************************************************************)
\* the longest index page, in definition-term entries
MaxDt == 2
\* the most <a name=...> markers of one content page
MaxAnchors == 3
\* the most INSERT statements of one cursor session (specification SpecSql)
MaxInserts == 3

(***************************************************************************)
(* Python's str operations.                                                *)
(***************************************************************************)
Whitespace == {" ", "\t", "\n"}

CharAt(s, i) == SubSeq(s, i, i)

IsSpace(s, i) == CharAt(s, i) \in Whitespace

\* str.startswith
StartsWith(s, prefix) ==
    /\ Len(s) >= Len(prefix)
    /\ SubSeq(s, 1, Len(prefix)) = prefix

\* str.endswith
EndsWith(s, suffix) ==
    /\ Len(s) >= Len(suffix)
    /\ SubSeq(s, Len(s) - Len(suffix) + 1, Len(s)) = suffix

\* `sub in s`
Contains(s, sub) ==
    \E i \in 1..(Len(s) - Len(sub) + 1) : SubSeq(s, i, i + Len(sub) - 1) = sub

\* the first index >= i of s that holds no whitespace, Len(s) + 1 if none
RECURSIVE SkipSpace(_, _)
SkipSpace(s, i) ==
    IF i > Len(s) THEN Len(s) + 1
    ELSE IF IsSpace(s, i) THEN SkipSpace(s, i + 1)
    ELSE i

\* the first index >= i of s that holds whitespace, Len(s) + 1 if none
RECURSIVE SkipWord(_, _)
SkipWord(s, i) ==
    IF i > Len(s) THEN Len(s) + 1
    ELSE IF IsSpace(s, i) THEN i
    ELSE SkipWord(s, i + 1)

\* the last index <= i of s that holds no whitespace, 0 if none
RECURSIVE SkipSpaceBack(_, _)
SkipSpaceBack(s, i) ==
    IF i < 1 THEN 0
    ELSE IF IsSpace(s, i) THEN SkipSpaceBack(s, i - 1)
    ELSE i

\* str.split(): the whitespace-separated words of s, from index i on
RECURSIVE SplitFrom(_, _)
SplitFrom(s, i) ==
    LET b == SkipSpace(s, i)
        e == SkipWord(s, b)
    IN  IF b > Len(s) THEN << >>
        ELSE <<SubSeq(s, b, e - 1)>> \o SplitFrom(s, e)

Split(s) == SplitFrom(s, 1)

\* str.strip()
Strip(s) == SubSeq(s, SkipSpace(s, 1), SkipSpaceBack(s, Len(s)))

(***************************************************************************)
(* Python's dict, in insertion order: a sequence of <<key, value>> with    *)
(* distinct keys.  docsyms maps a name to the triple (name, kind, link).   *)
(***************************************************************************)
DictKeys(d) == {d[i][1] : i \in 1..Len(d)}

DictHas(d, k) == k \in DictKeys(d)

DictIndex(d, k) == CHOOSE i \in 1..Len(d) : d[i][1] = k

DictGet(d, k) == d[DictIndex(d, k)][2]

\* d[k] = v: a present key keeps its place, a new key goes last
DictSet(d, k, v) ==
    IF DictHas(d, k) THEN [d EXCEPT ![DictIndex(d, k)] = <<k, v>>]
    ELSE Append(d, <<k, v>>)

\* d.values()
DictValues(d) == [i \in 1..Len(d) |-> d[i][2]]

(***************************************************************************)
(* The Symbol Extractor: the loop over soup.find_all("dt").                *)
(*                                                                         *)
(* A dt entry is its second child ch[1]: its text and its attributes.  An  *)
(* optional value (the href attribute here) is a sequence of length 0 or   *)
(* 1.                                                                      *)
(***************************************************************************)
\* ProvisionalKind without its second rule
ProvisionalKindSuffixOnly(name) ==
    IF EndsWith(name, "_t") THEN "Type" ELSE "Function"

\* the first guess about the symbol type, from the name alone
ProvisionalKind(name) ==
    IF EndsWith(name, "_t") THEN "Type"
    ELSE IF Contains(name, "_rngtype_") THEN "Type"
    ELSE "Function"

\* ch[1].text.split()[0] raises IndexError on a text with no word,
\* ch[1].attrs["href"] raises KeyError on a missing attribute
DtRaises(dt) == Split(dt.text) = << >> \/ dt.href = << >>

DtName(dt) == Split(dt.text)[1]

\* DtLink without the strip()
DtLinkUnstripped(dt) == dt.href[1]

DtLink(dt) == Strip(dt.href[1])

\* docsyms[name] = (name, kind, link)
DtStore(docs, dt) ==
    DictSet(docs, DtName(dt), <<DtName(dt), ProvisionalKind(DtName(dt)), DtLink(dt)>>)

RECURSIVE ExtractFrom(_, _, _)
ExtractFrom(page, i, docs) ==
    IF i > Len(page) THEN docs
    ELSE ExtractFrom(page, i + 1, DtStore(docs, page[i]))

\* docsyms after the loop over the dt tags of the index page
ExtractSymbols(page) == ExtractFrom(page, 1, << >>)

ExtractRaises(page) == \E i \in 1..Len(page) : DtRaises(page[i])

\* (htmldir / "ix01.html").open() raises on an absent file
IndexRaises(ix) == IF ix = << >> THEN TRUE ELSE ExtractRaises(ix[1])

(***************************************************************************)
(* The Kind Refiner and the Anchor Injector: the body of `for a in         *)
(* anchors`.                                                               *)
(*                                                                         *)
(* A content page is the sequence, in document order, of the elements that *)
(* hold <a name=...> markers.  Each such parent has `kids`, its marker     *)
(* children in order, and `pre`, what find("../../../../..//pre") returns  *)
(* from any of these children: the first pre element below the parent's    *)
(* fourth ancestor, or nothing.  On disk a marker is [name, class]; a      *)
(* parsed marker also has an id, its identity as an lxml element.          *)
(***************************************************************************)
\* RefineKind with the rules in another order: typedef first
RefineKindTypedefFirst(kind, pre) ==
    IF pre = << >> THEN kind
    ELSE LET code == Strip(pre[1])
         IN  IF StartsWith(code, "typedef") THEN "Type"
             ELSE IF StartsWith(code, "typedef enum") THEN "Enum"
             ELSE IF StartsWith(code, "typedef struct") THEN "Struct"
             ELSE IF StartsWith(code, "#define") THEN "Define"
             ELSE kind

\* the type a declaration names; the guess kept when no prefix matches
RefineKind(kind, pre) ==
    IF pre = << >> THEN kind
    ELSE LET code == Strip(pre[1])
         IN  IF StartsWith(code, "typedef enum") THEN "Enum"
             ELSE IF StartsWith(code, "typedef struct") THEN "Struct"
             ELSE IF StartsWith(code, "typedef") THEN "Type"
             ELSE IF StartsWith(code, "#define") THEN "Define"
             ELSE kind

\* "//apple_ref/cpp/%s/%s" % (kind, name)
AppleRef(kind, name) == "//apple_ref/cpp/" \o kind \o "/" \o name

\* fromstring("<a name='...' class='dashAnchor' />")
DashAnchor(kind, name) ==
    [id |-> 0, name |-> AppleRef(kind, name), class |-> "dashAnchor"]

\* the markers before parent p of a page
RECURSIVE KidsBefore(_, _)
KidsBefore(page, p) ==
    IF p <= 1 THEN 0 ELSE KidsBefore(page, p - 1) + Len(page[p - 1].kids)

\* lxml.html.parse: every element gets its identity
Parse(page) ==
    [p \in 1..Len(page) |->
        [pre  |-> page[p].pre,
         kids |-> [k \in 1..Len(page[p].kids) |->
                     [id    |-> KidsBefore(page, p) + k,
                      name  |-> page[p].kids[k].name,
                      class |-> page[p].kids[k].class]]]]

\* lxml.html.tostring: the markup, without the identities
TreeToString(t) ==
    [p \in 1..Len(t) |->
        [pre  |-> t[p].pre,
         kids |-> [k \in 1..Len(t[p].kids) |->
                     [name  |-> t[p].kids[k].name,
                      class |-> t[p].kids[k].class]]]]

\* the elements of a tree, in document order
RECURSIVE Flatten(_)
Flatten(t) ==
    IF t = << >> THEN << >> ELSE Head(t).kids \o Flatten(Tail(t))

\* tree.findall("//a[@name]"): the markers, in document order
FindAnchors(t) == [i \in 1..Len(Flatten(t)) |-> Flatten(t)[i].id]

\* a.getparent()
GetParent(t, id) ==
    CHOOSE p \in 1..Len(t) : \E k \in 1..Len(t[p].kids) : t[p].kids[k].id = id

\* p.index(a), counted from 1
IndexIn(kids, id) == CHOOSE k \in 1..Len(kids) : kids[k].id = id

\* the element a
Element(t, id) == t[GetParent(t, id)].kids[IndexIn(t[GetParent(t, id)].kids, id)]

\* list.insert: e becomes the element at position pos (counted from 1)
ListInsert(kids, pos, e) ==
    SubSeq(kids, 1, pos - 1) \o <<e>> \o SubSeq(kids, pos, Len(kids))

\* InsertAfter off by one: p.insert(p.index(a), e)
InsertBefore(t, id, e) ==
    LET p == CHOOSE q \in 1..Len(t) : \E k \in 1..Len(t[q].kids) : t[q].kids[k].id = id
    IN  [t EXCEPT ![p].kids =
            LET k == CHOOSE i \in 1..Len(@) : @[i].id = id
            IN  SubSeq(@, 1, k - 1) \o <<e>> \o SubSeq(@, k, Len(@))]

\* p.insert(p.index(a) + 1, e)
InsertAfter(t, id, e) ==
    LET p == GetParent(t, id)
    IN  [t EXCEPT ![p].kids = ListInsert(@, IndexIn(@, id) + 1, e)]

\* the kind of marker `id` after the refinement of the loop body
AnchorKind(t, docs, id) ==
    RefineKind(DictGet(docs, Element(t, id).name)[2], t[GetParent(t, id)].pre)

\* AnchorDocsyms with del docsyms[name] before the assignment: the key
\* goes last
AnchorDocsymsReinsert(t, docs, id) ==
    LET name == Element(t, id).name
        IsOther(entry) == entry[1] # name
    IN  IF DictHas(docs, name)
        THEN Append(SelectSeq(docs, IsOther),
                    <<name, <<name, AnchorKind(t, docs, id), DictGet(docs, name)[3]>> >>)
        ELSE docs

\* docsyms after the loop body for marker `id`
AnchorDocsyms(t, docs, id) ==
    LET name == Element(t, id).name
    IN  IF DictHas(docs, name)
        THEN DictSet(docs, name, <<name, AnchorKind(t, docs, id), DictGet(docs, name)[3]>>)
        ELSE docs

\* AnchorTree without `if name in docsyms`: a marker is injected after
\* every marker, with the first guess for an unknown name
AnchorTreeUnguarded(t, docs, id) ==
    LET name == Element(t, id).name
    IN  InsertAfter(t, id,
            DashAnchor(IF DictHas(docs, name) THEN AnchorKind(t, docs, id)
                       ELSE ProvisionalKind(name), name))

\* the tree after the loop body for marker `id`
AnchorTree(t, docs, id) ==
    LET name == Element(t, id).name
    IN  IF DictHas(docs, name)
        THEN InsertAfter(t, id, DashAnchor(AnchorKind(t, docs, id), name))
        ELSE t

(***************************************************************************)
(* The Index Writer: the SQL statements sent through the cursor.  A store  *)
(* is [exists, rows]: whether table searchIndex (with its unique index     *)
(* anchor) exists, and its rows in rowid order.                            *)
(***************************************************************************)
\* CreateRaises for CREATE TABLE IF NOT EXISTS
CreateNeverRaises(store) == FALSE

\* CREATE TABLE searchIndex raises when the table exists
CreateRaises(store) == store.exists

\* CREATE TABLE searchIndex(...); CREATE UNIQUE INDEX anchor ON ...
CreateTable(store) == [store EXCEPT !.exists = TRUE]

\* the id SQLite gives a new row of an INTEGER PRIMARY KEY table
NextRowId(rows) ==
    IF rows = << >> THEN 1
    ELSE 1 + CHOOSE m \in {rows[i].id : i \in 1..Len(rows)} :
                 \A i \in 1..Len(rows) : rows[i].id <= m

\* (name, type, path) is already a row: the unique index anchor rejects it
Conflicts(rows, t) ==
    \E i \in 1..Len(rows) :
        rows[i].name = t[1] /\ rows[i].type = t[2] /\ rows[i].path = t[3]

\* InsertOrIgnore on a table without its unique index
InsertAlways(rows, t) ==
    Append(rows, [id |-> Len(rows) + 1, name |-> t[1], type |-> t[2], path |-> t[3]])

\* INSERT OR IGNORE INTO searchIndex(name, type, path) VALUES (?,?,?)
InsertOrIgnore(rows, t) ==
    IF Conflicts(rows, t) THEN rows
    ELSE Append(rows, [id |-> NextRowId(rows), name |-> t[1], type |-> t[2], path |-> t[3]])

\* htmldir.glob("igraph-*.html")
GlobMatches(f) == StartsWith(f, "igraph-") /\ EndsWith(f, ".html") /\ Len(f) >= 12

(***************************************************************************)
(* The inputs of a run.                                                    *)
(***************************************************************************)
None == << >>

Some(x) == <<x>>

DtVector == [text |-> "igraph_vector_t -- Vector type", href |-> Some(" a.html#igraph_vector_t\n")]
DtAddEdge == [text |-> "igraph_add_edge", href |-> Some("b.html#igraph_add_edge")]
DtAddEdgeAgain == [text |-> "\n igraph_add_edge (again)", href |-> Some("igraph-b.html#igraph_add_edge")]
DtRngType == [text |-> "igraph_rngtype_mt19937", href |-> Some("igraph-b.html#igraph_rngtype_mt19937")]
DtNoWord == [text |-> " \n", href |-> Some("igraph-a.html")]
DtNoHref == [text |-> "igraph_add_edge", href |-> None]

DtEntries == {DtVector, DtAddEdge, DtAddEdgeAgain, DtRngType, DtNoWord, DtNoHref}

\* the index pages of at most n entries
IndexPages(n) == UNION {[1..k -> DtEntries] : k \in 0..n}

\* the index page of the end-to-end scenario
ScenarioIndex == <<DtVector, DtAddEdge>>

PreEnum == Some("typedef enum { IGRAPH_A } igraph_x_t;")
PreStruct == Some("\n  typedef struct { long n; } igraph_vector_t;\n")
PreTypedef == Some("typedef int igraph_integer_t;")
PreDefine == Some("#define IGRAPH_X 1")
PreProto == Some("int igraph_add_edge(igraph_t *graph);")

FewPres == {None, PreStruct}

AllPres == {None, PreEnum, PreStruct, PreTypedef, PreDefine, PreProto}

MarkerNames == {"igraph_vector_t", "igraph_add_edge"}

Marker(name) == [name |-> name, class |-> ""]

\* the parents of exactly k markers
Parents(k, pres) ==
    {[pre |-> pre, kids |-> [i \in 1..k |-> Marker(names[i])]] :
        pre \in pres, names \in [1..k -> MarkerNames]}

\* the content pages of exactly n markers
RECURSIVE PagesWith(_, _)
PagesWith(n, pres) ==
    IF n = 0 THEN {<< >>}
    ELSE UNION {{<<p>> \o rest : p \in Parents(k, pres), rest \in PagesWith(n - k, pres)} :
                    k \in 1..n}

\* the content pages of at most n markers
PagesUpTo(n, pres) == UNION {PagesWith(k, pres) : k \in 0..n}

FileA == "igraph-a.html"
FileB == "igraph-b.html"
FileOther == "a.html"

\* a directory of two files
Dir(f, pf, g, pg) == [x \in {f, g} |-> IF x = f THEN pf ELSE pg]

\* every index page, absent or present, beside small content pages
InputsIndex ==
    {[ix |-> ix, dir |-> Dir(FileA, pa, FileB, pb)] :
        ix \in {None} \cup {Some(page) : page \in IndexPages(MaxDt)},
        pa \in PagesUpTo(1, FewPres), pb \in PagesUpTo(1, FewPres)}

\* every shape of a content page, beside a small one
InputsShape ==
    {[ix |-> Some(ScenarioIndex), dir |-> Dir(FileA, pa, FileB, pb)] :
        pa \in PagesUpTo(MaxAnchors, FewPres), pb \in PagesUpTo(1, FewPres)}

\* every declaration, on either page
InputsDecl ==
    {[ix |-> Some(ScenarioIndex), dir |-> Dir(FileA, pa, FileB, pb)] :
        pa \in PagesUpTo(1, AllPres), pb \in PagesUpTo(1, AllPres)}

\* a page the glob does not match
InputsOther ==
    {[ix |-> Some(ScenarioIndex), dir |-> Dir(FileOther, pa, FileB, pb)] :
        pa \in PagesUpTo(1, FewPres), pb \in PagesUpTo(1, FewPres)}

Inputs == InputsIndex \cup InputsShape \cup InputsDecl \cup InputsOther

FreshStore == [exists |-> FALSE, rows |-> << >>]

Stores ==
    {FreshStore,
     [exists |-> TRUE, rows |-> << >>],
     [exists |-> TRUE,
      rows |-> <<[id |-> 1, name |-> "igraph_vector_t", type |-> "Type",
                  path |-> "a.html#igraph_vector_t"]>>]}

(***************************************************************************)
(* The state of a run of create_index_from_igraph_documentation between    *)
(* sqlite3.connect and conn.commit().  The store is the one the cursor is  *)
(* connected to: empty after create_docset removed an old docset, or with  *)
(* a searchIndex table when the function is given another cursor.          *)
(***************************************************************************)
VARIABLES
    pc,        \* where the run is
    err,       \* the step that raised, "" when none did
    ix01,      \* htmldir / "ix01.html": the index page, None when absent
    htmldir,   \* the other files of htmldir: file name -> content page
    db,        \* docSet.dsidx as committed
    cur,       \* docSet.dsidx as the connection sees it
    docsyms,   \* the symbol mapping
    globbed,   \* the files htmldir.glob has still to yield
    file,      \* the file of the current iteration, "" outside the loop
    tree,      \* its parsed tree
    anchors,   \* tree.findall("//a[@name]")
    a,         \* the position in anchors of the next marker
    triplet,   \* the position in docsyms.values() of the next triplet
    visited,   \* the files the glob has yielded, in order
    input      \* htmldir and db as they were when the run started

vars == <<pc, err, ix01, htmldir, db, cur, docsyms, globbed, file, tree, anchors, a, triplet, visited, input>>

Init ==
    /\ \E inp \in Inputs, store \in Stores :
        /\ ix01 = inp.ix
        /\ htmldir = inp.dir
        /\ db = store
        /\ cur = store
        /\ input = [dir |-> inp.dir, db |-> store]
    /\ pc = "create"
    /\ err = ""
    /\ docsyms = << >>
    /\ globbed = {}
    /\ file = ""
    /\ tree = << >>
    /\ anchors = << >>
    /\ a = 1
    /\ triplet = 1
    /\ visited = << >>

\* an exception leaves `with sqlite3.connect(...) as conn`: the connection
\* rolls back, conn.commit() is not reached
Raise(step) ==
    /\ pc' = "failed"
    /\ err' = step
    /\ cur' = db

\* cur.execute("CREATE TABLE ..."), cur.execute("CREATE UNIQUE INDEX ...").
\* No transaction is open: SQLite commits each statement as it runs.
Create ==
    /\ pc = "create"
    /\ ~CreateRaises(cur)
    /\ cur' = CreateTable(cur)
    /\ db' = CreateTable(cur)
    /\ pc' = "extract"
    /\ UNCHANGED <<err, ix01, htmldir, docsyms, globbed, file, tree, anchors, a, triplet, visited, input>>

CreateFails ==
    /\ pc = "create"
    /\ CreateRaises(cur)
    /\ Raise("create")
    /\ UNCHANGED <<ix01, htmldir, db, docsyms, globbed, file, tree, anchors, a, triplet, visited, input>>

\* the index page is read and docsyms is built; the glob starts
Extract ==
    /\ pc = "extract"
    /\ ~IndexRaises(ix01)
    /\ docsyms' = ExtractSymbols(ix01[1])
    /\ globbed' = {f \in DOMAIN htmldir : GlobMatches(f)}
    /\ pc' = IF globbed' = {} THEN "insert" ELSE "glob"
    /\ UNCHANGED <<err, ix01, htmldir, db, cur, file, tree, anchors, a, triplet, visited, input>>

\* open() raises on an absent index page, the loop on a malformed entry
ExtractFails ==
    /\ pc = "extract"
    /\ IndexRaises(ix01)
    /\ Raise("extract")
    /\ UNCHANGED <<ix01, htmldir, db, docsyms, globbed, file, tree, anchors, a, triplet, visited, input>>

\* the glob yields a file, in the order of the file system: any order
ParsePage(f) ==
    /\ pc = "glob"
    /\ f \in globbed
    /\ file' = f
    /\ tree' = Parse(htmldir[f])
    /\ anchors' = FindAnchors(Parse(htmldir[f]))
    /\ a' = 1
    /\ pc' = "anchors"
    /\ visited' = Append(visited, f)
    /\ UNCHANGED <<err, ix01, htmldir, db, cur, docsyms, globbed, triplet, input>>

\* a file that cannot be read
ParseFails(f) ==
    /\ pc = "glob"
    /\ f \in globbed
    /\ Raise("page")
    /\ UNCHANGED <<ix01, htmldir, db, docsyms, globbed, file, tree, anchors, a, triplet, visited, input>>

\* one iteration of `for a in anchors`
Anchor ==
    /\ pc = "anchors"
    /\ a <= Len(anchors)
    /\ docsyms' = AnchorDocsyms(tree, docsyms, anchors[a])
    /\ tree' = AnchorTree(tree, docsyms, anchors[a])
    /\ a' = a + 1
    /\ UNCHANGED <<pc, err, ix01, htmldir, db, cur, globbed, file, anchors, triplet, visited, input>>

\* htmlfile.write(tostring(tree)), and the next file
WritePage ==
    /\ pc = "anchors"
    /\ a > Len(anchors)
    /\ htmldir' = [htmldir EXCEPT ![file] = TreeToString(tree)]
    /\ globbed' = globbed \ {file}
    /\ pc' = IF globbed' = {} THEN "insert" ELSE "glob"
    /\ file' = ""
    /\ tree' = << >>
    /\ anchors' = << >>
    /\ a' = 1
    /\ UNCHANGED <<err, ix01, db, cur, docsyms, triplet, visited, input>>

\* a file that cannot be written
WriteFails ==
    /\ pc = "anchors"
    /\ a > Len(anchors)
    /\ Raise("page")
    /\ UNCHANGED <<ix01, htmldir, db, docsyms, globbed, file, tree, anchors, a, triplet, visited, input>>

\* Insert on a connection in autocommit mode
InsertAndCommit ==
    /\ pc = "insert"
    /\ triplet <= Len(docsyms)
    /\ cur' = [cur EXCEPT !.rows =
                 Append(@, [id |-> Len(@) + 1,
                            name |-> docsyms[triplet][2][1],
                            type |-> docsyms[triplet][2][2],
                            path |-> docsyms[triplet][2][3]])]
    /\ db' = cur'
    /\ triplet' = triplet + 1
    /\ UNCHANGED <<pc, err, ix01, htmldir, docsyms, globbed, file, tree, anchors, a, visited, input>>

\* one iteration of `for triplet in docsyms.values()`
Insert ==
    /\ pc = "insert"
    /\ triplet <= Len(docsyms)
    /\ cur' = [cur EXCEPT !.rows = InsertOrIgnore(@, DictValues(docsyms)[triplet])]
    /\ triplet' = triplet + 1
    /\ UNCHANGED <<pc, err, ix01, htmldir, db, docsyms, globbed, file, tree, anchors, a, visited, input>>

\* a statement the store refuses (a full disk, a locked file)
InsertFails ==
    /\ pc = "insert"
    /\ triplet <= Len(docsyms)
    /\ Raise("insert")
    /\ UNCHANGED <<ix01, htmldir, db, docsyms, globbed, file, tree, anchors, a, triplet, visited, input>>

\* the function returns and create_docset runs conn.commit()
Commit ==
    /\ pc = "insert"
    /\ triplet > Len(docsyms)
    /\ db' = cur
    /\ pc' = "done"
    /\ UNCHANGED <<err, ix01, htmldir, cur, docsyms, globbed, file, tree, anchors, a, triplet, visited, input>>

Next ==
    \/ Create
    \/ CreateFails
    \/ Extract
    \/ ExtractFails
    \/ \E f \in DOMAIN htmldir : ParsePage(f)
    \/ \E f \in DOMAIN htmldir : ParseFails(f)
    \/ Anchor
    \/ WritePage
    \/ WriteFails
    \/ Insert
    \/ InsertFails
    \/ Commit

Spec == Init /\ [][Next]_vars

(***************************************************************************)
(* The cursor on its own: the statements of the Index Writer, sent in any  *)
(* number and with any values to a store that starts empty.                *)
(***************************************************************************)
SqlNames == {"igraph_foo", "igraph_bar"}
SqlKinds == {"Function", "Struct"}
SqlPaths == {"x.html", "y.html"}

InitSql ==
    /\ pc = "sql"
    /\ err = ""
    /\ ix01 = None
    /\ htmldir = << >>
    /\ db = FreshStore
    /\ cur = FreshStore
    /\ docsyms = << >>
    /\ globbed = {}
    /\ file = ""
    /\ tree = << >>
    /\ anchors = << >>
    /\ a = 1
    /\ triplet = 1
    /\ visited = << >>
    /\ input = [dir |-> << >>, db |-> FreshStore]

SqlCreate ==
    /\ pc = "sql"
    /\ ~CreateRaises(cur)
    /\ cur' = CreateTable(cur)
    /\ db' = CreateTable(cur)
    /\ UNCHANGED <<pc, err, ix01, htmldir, docsyms, globbed, file, tree, anchors, a, triplet, visited, input>>

SqlInsert(t) ==
    /\ pc = "sql"
    /\ cur.exists
    /\ triplet <= MaxInserts
    /\ cur' = [cur EXCEPT !.rows = InsertOrIgnore(@, t)]
    /\ triplet' = triplet + 1
    /\ UNCHANGED <<pc, err, ix01, htmldir, db, docsyms, globbed, file, tree, anchors, a, visited, input>>

SqlCommit ==
    /\ pc = "sql"
    /\ db # cur
    /\ db' = cur
    /\ UNCHANGED <<pc, err, ix01, htmldir, cur, docsyms, globbed, file, tree, anchors, a, triplet, visited, input>>

NextSql ==
    \/ SqlCreate
    \/ \E n \in SqlNames, k \in SqlKinds, l \in SqlPaths : SqlInsert(<<n, k, l>>)
    \/ SqlCommit

SpecSql == InitSql /\ [][NextSql]_vars

(***************************************************************************)
(* What the properties below are stated with.  Texts are described here    *)
(* by what a word, a trimmed text and a prefix are, not by how Split and   *)
(* Strip compute them.                                                     *)
(***************************************************************************)
Blank == {" ", "\t", "\n"}

BlankAt(s, i) == SubSeq(s, i, i) \in Blank

\* w is the first whitespace-delimited word of text
IsFirstWord(w, text) ==
    /\ Len(w) >= 1
    /\ \E b \in 1..Len(text) :
        LET e == b + Len(w) - 1
        IN  /\ e <= Len(text)
            /\ SubSeq(text, b, e) = w
            /\ \A i \in 1..(b - 1) : BlankAt(text, i)
            /\ \A i \in b..e : ~BlankAt(text, i)
            /\ e = Len(text) \/ BlankAt(text, e + 1)

\* s is text without its leading and trailing whitespace
IsTrimOf(s, text) ==
    \/ s = "" /\ \A i \in 1..Len(text) : BlankAt(text, i)
    \/ /\ Len(s) >= 1
       /\ ~BlankAt(s, 1)
       /\ ~BlankAt(s, Len(s))
       /\ \E b \in 1..Len(text) :
            /\ b + Len(s) - 1 <= Len(text)
            /\ SubSeq(text, b, b + Len(s) - 1) = s
            /\ \A i \in 1..(b - 1) : BlankAt(text, i)
            /\ \A i \in (b + Len(s))..Len(text) : BlankAt(text, i)

\* the trimmed text starts with prefix (a prefix with no blank at its start)
TrimmedStartsWith(text, prefix) ==
    \E b \in 1..Len(text) :
        /\ \A i \in 1..(b - 1) : BlankAt(text, i)
        /\ b + Len(prefix) - 1 <= Len(text)
        /\ SubSeq(text, b, b + Len(prefix) - 1) = prefix

\* the kind the name alone stands for
KindOfName(n) ==
    IF Len(n) >= 2 /\ SubSeq(n, Len(n) - 1, Len(n)) = "_t" THEN "Type"
    ELSE IF \E i \in 1..Len(n) : i + 8 <= Len(n) /\ SubSeq(n, i, i + 8) = "_rngtype_"
         THEN "Type"
    ELSE "Function"

\* the kind a declaration stands for, as a set: empty when no rule applies
KindsOfDecl(text) ==
    IF TrimmedStartsWith(text, "typedef enum") THEN {"Enum"}
    ELSE IF TrimmedStartsWith(text, "typedef struct") THEN {"Struct"}
    ELSE IF TrimmedStartsWith(text, "typedef") THEN {"Type"}
    ELSE IF TrimmedStartsWith(text, "#define") THEN {"Define"}
    ELSE {}

Kinds == {"Function", "Type", "Enum", "Struct", "Define"}

\* the Extractor has run and docsyms is built
Extracted == pc \notin {"create", "extract", "sql"} /\ err \notin {"create", "extract"}

\* the Extractor has run and no content page has been opened yet
JustExtracted == Extracted /\ pc = "glob" /\ visited = << >>

\* the files the glob matches
Globbed == {f \in DOMAIN input.dir : GlobMatches(f)}

\* content page f has been rewritten
Written(f) == Extracted /\ f \in Globbed /\ f \notin globbed /\ f # file

\* the (name, type, path) of the rows of a table
Triples(rows) == {<<rows[i].name, rows[i].type, rows[i].path>> : i \in 1..Len(rows)}

(***************************************************************************)
(* C1.  In table searchIndex the triple (name, type, path) is unique, in   *)
(* the committed store and in the connection's view of it, whatever is     *)
(* inserted and however often: an insert of a triple that is present       *)
(* leaves the rows as they are, so the same symbol inserted twice has      *)
(* exactly one row.  Row ids are unique too.                               *)
(***************************************************************************)
UniqueRows(rows) ==
    \A i, j \in 1..Len(rows) :
        (\/ rows[i].id = rows[j].id
         \/ <<rows[i].name, rows[i].type, rows[i].path>>
              = <<rows[j].name, rows[j].type, rows[j].path>>) => i = j

\* C1: no two rows of searchIndex share (name, type, path), or an id
C1_UniqueTriple == UniqueRows(cur.rows) /\ UniqueRows(db.rows)

\* every insert of the session but the first repeated a present triple, and
\* the table, committed, holds exactly one row
C1_Witness ==
    /\ pc = "sql"
    /\ triplet = MaxInserts + 1
    /\ Len(cur.rows) = 1
    /\ db = cur

(***************************************************************************)
(* C3.  Once the Extractor has run, every entry of the index page has its  *)
(* record, under the first word of its text; there is one record per name, *)
(* whose link is the trimmed href of the last entry of that name; an index *)
(* page with no entry gives the empty mapping; and before any content page *)
(* is opened the kind of each record is the one its name stands for: Type  *)
(* for a name ending in _t or containing _rngtype_, else Function.         *)
(***************************************************************************)
\* C3: one record per listed name, its link the last entry's, its first
\* kind the one of the name
C3_OneRecordPerEntry ==
    Extracted =>
        LET page == ix01[1]
        IN  /\ \A i \in 1..Len(page) :
                \E j \in 1..Len(docsyms) : IsFirstWord(docsyms[j][1], page[i].text)
            /\ \A j \in 1..Len(docsyms) :
                /\ docsyms[j][2][1] = docsyms[j][1]
                /\ \A k \in 1..Len(docsyms) : docsyms[k][1] = docsyms[j][1] => k = j
                /\ \E i \in 1..Len(page) :
                    /\ IsFirstWord(docsyms[j][1], page[i].text)
                    /\ \A l \in (i + 1)..Len(page) : ~IsFirstWord(docsyms[j][1], page[l].text)
                    /\ IsTrimOf(docsyms[j][2][3], page[i].href[1])
                /\ JustExtracted => docsyms[j][2][2] = KindOfName(docsyms[j][1])

\* two entries of one name gave one record, with the link of the later one
C3_Witness ==
    /\ JustExtracted
    /\ ix01 = Some(<<DtAddEdge, DtAddEdgeAgain>>)
    /\ docsyms = << <<"igraph_add_edge",
                      <<"igraph_add_edge", "Function", "igraph-b.html#igraph_add_edge">> >> >>

(***************************************************************************)
(* C7.  When table searchIndex exists at the start, the run fails at the   *)
(* creation of the table: it never gets past it, the mapping stays empty,  *)
(* no content page is rewritten and the table keeps its rows, as committed *)
(* and as the connection sees them.                                        *)
(***************************************************************************)
\* C7: with the table present at the start the run stops at its creation
\* and changes nothing
C7_ExistingTableFatal ==
    input.db.exists =>
        /\ pc \in {"create", "failed"}
        /\ pc = "failed" => err = "create"
        /\ docsyms = << >>
        /\ visited = << >>
        /\ htmldir = input.dir
        /\ db = input.db
        /\ cur = input.db

C7_Witness ==
    /\ pc = "failed"
    /\ err = "create"
    /\ input.db.exists
    /\ input.db.rows # << >>
    /\ db.rows = input.db.rows

(***************************************************************************)
(* C8.  The committed table changes once, at the commit that ends a run    *)
(* with every content page processed and every symbol inserted: before     *)
(* that, and after a failure at any step, it holds no row of the run; once *)
(* the run is done it holds the rows of all the symbols.                   *)
(***************************************************************************)
\* C8: the committed rows are those of the start until the run is done, and
\* then those of every symbol
C8_AtomicCommit ==
    /\ pc # "done" => db.rows = input.db.rows
    /\ pc = "done" =>
        /\ globbed = {}
        /\ triplet = Len(docsyms) + 1
        /\ Len(db.rows) = Len(docsyms)
        /\ Triples(db.rows) = {docsyms[j][2] : j \in 1..Len(docsyms)}

\* a run that failed after its first insert
C8_Witness ==
    /\ pc = "failed"
    /\ err = "insert"
    /\ triplet > 1
    /\ db.rows = << >>

(***************************************************************************)
(* C4.  A step of the loop over the markers whose marker has a name N of   *)
(* the mapping raises nothing and leaves N with the kind of the first rule *)
(* that the trimmed text of the declaration found for the marker matches   *)
(* (typedef enum: Enum; typedef struct: Struct; typedef: Type; #define:    *)
(* Define), and with the kind it had when no rule matches or no            *)
(* declaration is found.                                                   *)
(***************************************************************************)
\* the kind of name n in mapping d
KindIn(d, n) == d[CHOOSE j \in 1..Len(d) : d[j][1] = n][2][2]

\* the loop over the markers is at a marker
AtMarker == pc = "anchors" /\ a <= Len(anchors)

MarkerName == Element(tree, anchors[a]).name

MarkerPre == tree[GetParent(tree, anchors[a])].pre

C4_Step ==
    (AtMarker /\ MarkerName \in DictKeys(docsyms)) =>
        LET hits == IF MarkerPre = None THEN {} ELSE KindsOfDecl(MarkerPre[1])
        IN  /\ pc' = "anchors"
            /\ err' = ""
            /\ a' = a + 1
            /\ MarkerName \in DictKeys(docsyms')
            /\ IF hits = {}
               THEN KindIn(docsyms', MarkerName) = KindIn(docsyms, MarkerName)
               ELSE KindIn(docsyms', MarkerName) \in hits

\* C4: every step of the run refines the kind of a known marker's name by
\* the first matching rule, or keeps it
C4_RefinedByFirstRule == [][C4_Step]_vars

\* a step has refined a name to Define, and another to Enum
C4_Witness ==
    /\ pc = "anchors"
    /\ a > 1
    /\ \E j \in 1..Len(docsyms) : docsyms[j][2][2] = "Define"
    /\ \E j \in 1..Len(docsyms) : docsyms[j][2][2] = "Enum"

(***************************************************************************)
(* C5.  In a rewritten content page every parent holds the markers it had, *)
(* in the order it had them, none removed or renamed; each marker whose    *)
(* name is in the mapping is followed at once by one injected marker named *)
(* //apple_ref/cpp/<kind>/<name>, and there is no other injected marker:   *)
(* [A, B, C] becomes [A, A', B, B', C, C'].                                *)
(***************************************************************************)
IsOriginal(e) == e.class # "dashAnchor"

\* C5: a rewritten page holds its markers in their order, each known one
\* followed at once by its injected marker
C5_OrderPreserving ==
    \A f \in DOMAIN htmldir :
        Written(f) =>
            /\ Len(htmldir[f]) = Len(input.dir[f])
            /\ \A p \in 1..Len(htmldir[f]) :
                LET out == htmldir[f][p].kids
                IN  /\ htmldir[f][p].pre = input.dir[f][p].pre
                    /\ SelectSeq(out, IsOriginal) = input.dir[f][p].kids
                    /\ \A j \in 1..Len(out) :
                        IF IsOriginal(out[j])
                        THEN out[j].name \in DictKeys(docsyms) =>
                                j < Len(out) /\ ~IsOriginal(out[j + 1])
                        ELSE /\ j > 1
                             /\ IsOriginal(out[j - 1])
                             /\ out[j - 1].name \in DictKeys(docsyms)
                             /\ \E k \in Kinds :
                                 out[j].name = "//apple_ref/cpp/" \o k \o "/" \o out[j - 1].name

\* a parent of three markers, all of the mapping, rewritten with six
C5_Witness ==
    \E f \in DOMAIN htmldir :
        /\ Written(f)
        /\ \E p \in 1..Len(htmldir[f]) :
            /\ Len(input.dir[f][p].kids) = 3
            /\ Len(htmldir[f][p].kids) = 6

(***************************************************************************)
(* C9.  No step of the content-page pass adds or removes a key of the      *)
(* mapping, or changes the name or the link of an entry; the kind of an    *)
(* entry changes only in the step of a marker of that name; and the step   *)
(* of a marker whose name is no key leaves the tree as it is.              *)
(***************************************************************************)
C9_Step ==
    pc \in {"glob", "anchors"} =>
        /\ Len(docsyms') = Len(docsyms)
        /\ \A j \in 1..Len(docsyms) :
            /\ docsyms'[j][1] = docsyms[j][1]
            /\ docsyms'[j][2][1] = docsyms[j][2][1]
            /\ docsyms'[j][2][3] = docsyms[j][2][3]
            /\ docsyms'[j][2][2] # docsyms[j][2][2] =>
                    AtMarker /\ MarkerName = docsyms[j][1]
        /\ (AtMarker /\ MarkerName \notin DictKeys(docsyms)) => tree' = tree

\* C9: every step of the content-page pass keeps the keys, names and links
\* of the mapping, and injects nothing for an unknown name
C9_RefinementFrame == [][C9_Step]_vars

\* the step of a marker that is no key of a mapping that has keys is over
C9_Witness ==
    /\ pc = "anchors"
    /\ a = 2
    /\ docsyms # << >>
    /\ Element(tree, anchors[1]).name \notin DictKeys(docsyms)
    /\ tree = Parse(input.dir[file])

(***************************************************************************)
(* C2.  After a run that is done, the table holds one row per name listed  *)
(* on the index page and no other row, numbered in the order of the first  *)
(* listing; the path of a row is the trimmed link of the last entry of its *)
(* name; its type is the kind its name stands for, unless a content page   *)
(* has a marker of that name with a declaration that a rule matches, and   *)
(* then the kind of such a declaration.  Stated twice: with every page of  *)
(* the directory as a content page (C2_AllPages), and with the pages that  *)
(* the glob igraph-*.html matches (C2_GlobbedPages).                       *)
(***************************************************************************)
\* the kinds the declarations at the markers named n stand for, in `files`
DeclaredKinds(n, files) ==
    UNION {IF input.dir[f][p].pre = None THEN {}
           ELSE KindsOfDecl(input.dir[f][p].pre[1]) :
             <<f, p>> \in {<<g, q>> \in files \X (1..MaxAnchors + 1) :
                            /\ q <= Len(input.dir[g])
                            /\ \E k \in 1..Len(input.dir[g][q].kids) :
                                 input.dir[g][q].kids[k].name = n}}

ExpectedKinds(n, files) ==
    IF DeclaredKinds(n, files) = {} THEN {KindOfName(n)} ELSE DeclaredKinds(n, files)

\* the end-to-end scenario, with page f the one that declares igraph_vector_t
Scenario(f) ==
    /\ ix01 = Some(ScenarioIndex)
    /\ f \in DOMAIN input.dir
    /\ input.dir[f] = <<[pre |-> PreStruct, kids |-> <<Marker("igraph_vector_t")>>]>>
    /\ \A g \in DOMAIN input.dir \ {f} : input.dir[g] = << >>

ScenarioRows ==
    << [id |-> 1, name |-> "igraph_vector_t", type |-> "Struct", path |-> "a.html#igraph_vector_t"],
       [id |-> 2, name |-> "igraph_add_edge", type |-> "Function", path |-> "b.html#igraph_add_edge"] >>

RowsAsListed(files) ==
    LET page == ix01[1]
        rows == db.rows
    IN  /\ \A i \in 1..Len(page) :
            \E j \in 1..Len(rows) : IsFirstWord(rows[j].name, page[i].text)
        /\ \A j \in 1..Len(rows) :
            /\ rows[j].id = j
            /\ \A k \in 1..Len(rows) : rows[k].name = rows[j].name => k = j
            /\ \E i \in 1..Len(page) :
                /\ IsFirstWord(rows[j].name, page[i].text)
                /\ \A l \in (i + 1)..Len(page) : ~IsFirstWord(rows[j].name, page[l].text)
                /\ IsTrimOf(rows[j].path, page[i].href[1])
            /\ rows[j].type \in ExpectedKinds(rows[j].name, files)
        /\ \A f \in files : Scenario(f) => rows = ScenarioRows

\* C2 as claimed, where a content page is any page of the directory: the
\* rows of a run that is done are those listed, with their refined kinds
C2_AllPages == pc = "done" => RowsAsListed(DOMAIN input.dir)

\* C2 on the code, where a content page is a page the glob igraph-*.html
\* matches: the rows of a run that is done are those listed, with their
\* refined kinds
C2_GlobbedPages == pc = "done" => RowsAsListed(Globbed)

\* the scenario, with the declaration in igraph-a.html, is done
C2_Witness ==
    /\ pc = "done"
    /\ Scenario(FileA)
    /\ db.rows = ScenarioRows

(***************************************************************************)
(* C6.  The content pages are visited in any order.  The run as it went    *)
(* is compared with the run that visits them in one fixed order: the       *)
(* mapping, the rewritten pages and the rows are the same.  Stated twice:  *)
(* for every input (C6_AnyOrder), and for the inputs where no name of the  *)
(* mapping has markers on more than one content page                       *)
(* (C6_AnyOrderOfDisjointPages).                                           *)
(***************************************************************************)
\* the loop over the markers `ids` of tree t, from position i on
RECURSIVE RunAnchors(_, _, _, _)
RunAnchors(t, docs, ids, i) ==
    IF i > Len(ids) THEN [tree |-> t, docs |-> docs]
    ELSE RunAnchors(AnchorTree(t, docs, ids[i]), AnchorDocsyms(t, docs, ids[i]), ids, i + 1)

\* the loop over the files `order` of directory dir, from position i on
RECURSIVE RunFiles(_, _, _, _)
RunFiles(order, dir, docs, i) ==
    IF i > Len(order) THEN [dir |-> dir, docs |-> docs]
    ELSE LET t == Parse(dir[order[i]])
             r == RunAnchors(t, docs, FindAnchors(t), 1)
         IN  RunFiles(order, [dir EXCEPT ![order[i]] = TreeToString(r.tree)], r.docs, i + 1)

\* one fixed order of the files the glob matches
FixedOrder ==
    CHOOSE order \in [1..Cardinality(Globbed) -> Globbed] :
        \A i, j \in 1..Cardinality(Globbed) : order[i] = order[j] => i = j

\* the names of the markers of page f
NamesOn(f) ==
    {input.dir[f][p].kids[k].name :
        <<p, k>> \in {<<q, l>> \in (1..MaxAnchors + 1) \X (1..MaxAnchors + 1) :
                        q <= Len(input.dir[f]) /\ l <= Len(input.dir[f][q].kids)}}

\* no name of the mapping has markers on more than one content page
DisjointPages ==
    \A f, g \in Globbed :
        f # g => NamesOn(f) \cap NamesOn(g) \cap DictKeys(docsyms) = {}

SameAsFixedOrder ==
    LET r == RunFiles(FixedOrder, input.dir, ExtractSymbols(ix01[1]), 1)
    IN  /\ docsyms = r.docs
        /\ htmldir = r.dir
        /\ db.rows = [j \in 1..Len(r.docs) |->
                        [id |-> j, name |-> r.docs[j][2][1],
                         type |-> r.docs[j][2][2], path |-> r.docs[j][2][3]]]

\* C6 as claimed: a run that is done ends as the run in the fixed order does
C6_AnyOrder == pc = "done" => SameAsFixedOrder

\* C6 on the code: a run that is done over pages that share no name of the
\* mapping ends as the run in the fixed order does
C6_AnyOrderOfDisjointPages == (pc = "done" /\ DisjointPages) => SameAsFixedOrder

\* a run is done that visited two pages, each with a marker of the mapping
\* and a declaration, in the other order
C6_Witness ==
    /\ pc = "done"
    /\ DisjointPages
    /\ Len(visited) = 2
    /\ visited # FixedOrder
    /\ \A f \in Globbed : NamesOn(f) \cap DictKeys(docsyms) # {}
    /\ \A j \in 1..Len(docsyms) : docsyms[j][2][2] = "Struct"

(***************************************************************************)
(* C10.  After a run that is done, every injected marker of a rewritten    *)
(* page, //apple_ref/cpp/<K>/<N>, has a row of name N and type K in the    *)
(* table.                                                                  *)
(***************************************************************************)
\* C10: every injected marker of a run that is done names the type of the
\* row of its name
C10_MarkersAgreeWithIndex ==
    pc = "done" =>
        \A f \in Globbed :
            \A p \in 1..Len(htmldir[f]) :
                \A j \in 1..Len(htmldir[f][p].kids) :
                    ~IsOriginal(htmldir[f][p].kids[j]) =>
                        \E i \in 1..Len(db.rows) :
                            htmldir[f][p].kids[j].name =
                                "//apple_ref/cpp/" \o db.rows[i].type \o "/" \o db.rows[i].name

=============================================================================
